---- MODULE Spec2Model ----
(***************************************************************************)
(* Graph editor of robot-blocks (frontend/src/App.jsx): the node and edge  *)
(* store, the connection engine, the execution-order resolver and the      *)
(* graph.v1 import/export, as a state machine with one action per event    *)
(* handler.                                                                *)
(*                                                                         *)
(* JavaScript strings that the code takes apart or compares character by   *)
(* character (node ids, port names, edge keys "nodeId.port", labels) are   *)
(* sequences of one-character strings.  Strings that are only compared     *)
(* for equality (data types, parameter keys, reasons) are TLA+ strings.     *)
(* A nullable value is <<>> (null) or <<v>>.                               *)
(* Node positions (x, y), the drag state and the toast are not modelled:   *)
(* no handler reads them to decide anything about ids, edges, z or         *)
(* parameters.  The reason a rejected connection shows as its toast is     *)
(* the reason field of canConnect's result.                                *)
(***************************************************************************)
EXTENDS Integers, Sequences, FiniteSets, TLC

----------------------------------------------------------------------------
(* Bounds of the model *)

\* most nodes the store holds at once
MaxNodes == 3
\* largest value the z counter takes
MaxZ == 4
\* most edges the store holds at once
MaxEdges == 2

----------------------------------------------------------------------------
(* Strings *)

None == <<>>
Some(x) == <<x>>

Dot == <<".">>
Underscore == <<"_">>

\* String.prototype.startsWith
startsWith(s, prefix) ==
  /\ Len(prefix) <= Len(s)
  /\ SubSeq(s, 1, Len(prefix)) = prefix

----------------------------------------------------------------------------
(* Block catalog *)

constant_cmd == <<"c","o","n","s","t","a","n","t","_","c","m","d">>
cartesian_control ==
  <<"c","a","r","t","e","s","i","a","n","_","c","o","n","t","r","o","l">>
mujoco_sim == <<"m","u","j","o","c","o","_","s","i","m">>
logger == <<"l","o","g","g","e","r">>

command == <<"c","o","m","m","a","n","d">>
state == <<"s","t","a","t","e">>

\* a parameter value: a finite number (its literal text), a non-finite number
\* (Infinity, -Infinity), or a string
NumV(text) == [kind |-> "num", num |-> text, str |-> <<>>]
InfV(text) == [kind |-> "inf", num |-> text, str |-> <<>>]
StrV(chars) == [kind |-> "str", num |-> "", str |-> chars]
\* JSON null
NullV == [kind |-> "null", num |-> "", str |-> <<>>]

\* JSON.parse(JSON.stringify(v)) of a value: a non-finite number is written
\* as null, every other value reads back as it was
jsonValue(v) == IF v.kind = "inf" THEN NullV ELSE v

\* JSON.parse(JSON.stringify(obj)) of a flat object of values
jsonObject(obj) == [k \in DOMAIN obj |-> jsonValue(obj[k])]

\* deepClone
deepClone(obj) == jsonObject(obj)

BLOCK_CATALOG ==
  [t \in {constant_cmd, cartesian_control, mujoco_sim, logger} |->
    CASE t = constant_cmd ->
           [label |-> <<"C","o","n","s","t","a","n","t"," ","C","m","d">>,
            category |-> "input",
            inputs |-> <<>>,
            outputs |-> <<[name |-> command, type |-> "cartesian_cmd"]>>,
            params |-> [k \in {"dx", "dy", "dz", "drx", "dry", "drz"} |-> NumV("0")]]
      [] t = cartesian_control ->
           [label |-> <<"C","a","r","t","e","s","i","a","n"," ",
                        "C","o","n","t","r","o","l">>,
            category |-> "control",
            inputs |-> <<[name |-> state, type |-> "robot_state"]>>,
            outputs |-> <<[name |-> command, type |-> "cartesian_cmd"]>>,
            params |-> [k \in {"goal_x", "step"} |->
                         IF k = "goal_x" THEN NumV("0.5") ELSE NumV("0.005")]]
      [] t = mujoco_sim ->
           [label |-> <<"M","u","J","o","C","o"," ","S","i","m">>,
            category |-> "sim",
            inputs |-> <<[name |-> command, type |-> "cartesian_cmd"]>>,
            outputs |-> <<[name |-> state, type |-> "robot_state"]>>,
            params |-> [k \in {"model_path", "dof_index", "dx_scale", "apply_mode",
                               "substeps_per_tick", "max_abs_x"} |->
                         CASE k = "model_path" -> StrV(<<>>)
                           [] k = "dof_index" -> NumV("0")
                           [] k = "dx_scale" -> NumV("1")
                           [] k = "apply_mode" -> StrV(<<"q","p","o","s">>)
                           [] k = "substeps_per_tick" -> NumV("1")
                           [] k = "max_abs_x" -> NumV("1000000000")]]
      [] t = logger ->
           [label |-> <<"L","o","g","g","e","r">>,
            category |-> "sink",
            inputs |-> <<[name |-> state, type |-> "robot_state"]>>,
            outputs |-> <<>>,
            params |-> [k \in {"tag", "every_n"} |->
                         IF k = "tag" THEN StrV(<<"r","u","n">>) ELSE NumV("1")]]]

\* getPortType looking the port up among the inputs and the outputs alike
getPortType_anyDirection(nodeType, portName, direction) ==
  IF nodeType \notin DOMAIN BLOCK_CATALOG THEN None
  ELSE LET spec == BLOCK_CATALOG[nodeType]
           list == spec.inputs \o spec.outputs
           found == SelectSeq(list, LAMBDA p : p.name = portName)
       IN IF found # <<>> THEN Some(Head(found).type) ELSE None

\* getPortType: the data type of the named port, or null
getPortType(nodeType, portName, direction) ==
  IF nodeType \notin DOMAIN BLOCK_CATALOG THEN None
  ELSE LET spec == BLOCK_CATALOG[nodeType]
           list == IF direction = "input" THEN spec.inputs ELSE spec.outputs
           found == SelectSeq(list, LAMBDA p : p.name = portName)
       IN IF found # <<>> THEN Some(Head(found).type) ELSE None

----------------------------------------------------------------------------
(* State *)

VARIABLES
  nodes,           \* useState nodes: sequence of [id, type, label, z, params]
  edges,           \* useState edges: sequence of [from, to, msg_type]
  selectedNodeId,  \* useState selectedNodeId: null or a node id
  pendingFrom,     \* useState pendingFrom: null or [nodeId, port, msgType]
  maxZRef,         \* maxZRef.current
  runCfg,          \* useState runCfg
  defaultModel,    \* DEFAULT_MUJOCO_MODEL, fixed by the build environment
  runStatus,       \* null, or what the last setRunStatus of a run gave it
  requests,        \* the fetches to /api/run, in the order they were issued
  storage          \* localStorage[STORAGE_KEY]: null, or the saved payload

vars == <<nodes, edges, selectedNodeId, pendingFrom, maxZRef, runCfg, defaultModel,
         runStatus, requests, storage>>

\* what editing the graph leaves alone
sessionVars == <<runCfg, defaultModel, runStatus, requests, storage>>

\* what import and the run configuration leave alone
sideVars == <<defaultModel, runStatus, requests, storage>>

\* values uid() can return: up to six hexadecimal digits, possibly one a
\* prefix of another, possibly the same twice
UidPool == {<<"7">>, <<"7","f">>}

\* values uid() returns for the two nodes of the starter graph
StarterUids == {<<"7">>}

\* values the build can give VITE_DEFAULT_MUJOCO_MODEL (after trim)
DefaultModels == {<<"m">>}

\* an id no node of the store has (a handler called for a node that is gone)
AbsentId == <<"g","o","n","e">>

PortNames == {command, state}

newId(type, u) == type \o Underscore \o u

\* the reasons canConnect returns, which onInputMouseUp shows as a toast
SameNode == <<"Same node">>
NodeNotFound == <<"Node not found">>
PortNotFound == <<"Port not found">>
TypeMismatch(outType, inType) == <<"Type mismatch: ", outType, " -> ", inType>>
DuplicateEdge == <<"Edge already exists">>

\* the state of the component after construction, but for localStorage
InitStore ==
  /\ \E u1 \in StarterUids, u2 \in StarterUids :
       nodes = << [id |-> newId(mujoco_sim, u1), type |-> mujoco_sim,
                   label |-> BLOCK_CATALOG[mujoco_sim].label, z |-> 1,
                   params |-> deepClone(BLOCK_CATALOG[mujoco_sim].params)],
                  [id |-> newId(cartesian_control, u2), type |-> cartesian_control,
                   label |-> BLOCK_CATALOG[cartesian_control].label, z |-> 2,
                   params |-> deepClone(BLOCK_CATALOG[cartesian_control].params)] >>
  /\ maxZRef = 2
  /\ edges = <<>>
  /\ selectedNodeId = None
  /\ pendingFrom = None
  /\ runCfg = [duration_sec |-> 10, hz |-> 20, viewer |-> TRUE]
  /\ defaultModel \in DefaultModels
  /\ runStatus = None
  /\ requests = <<>>

\* a session that starts with nothing saved
Init == InitStore /\ storage = None

NodeIds == {nodes[i].id : i \in 1..Len(nodes)}

\* nodes.find((n) => n.id === id), as a nullable
findNode(id) ==
  LET hits == SelectSeq(nodes, LAMBDA n : n.id = id)
  IN IF hits = <<>> THEN None ELSE Some(Head(hits))

----------------------------------------------------------------------------
(* Node operations *)

\* bringToFront(nodeId)
bringToFront(nodeId) ==
  LET nextZ == (IF maxZRef = 0 THEN 1 ELSE maxZRef) + 1
  IN /\ maxZRef < MaxZ
     /\ maxZRef' = nextZ
     /\ nodes' = [i \in 1..Len(nodes) |->
                    IF nodes[i].id = nodeId THEN [nodes[i] EXCEPT !.z = nextZ]
                    ELSE nodes[i]]

\* addNode(type), with u the value uid() returns
addNode(type, u) ==
  IF type \notin DOMAIN BLOCK_CATALOG THEN UNCHANGED vars
  ELSE
    LET spec == BLOCK_CATALOG[type]
        id == newId(type, u)
        nextZ == (IF maxZRef = 0 THEN 1 ELSE maxZRef) + 1
        cloned == deepClone(spec.params)
        params == IF type = mujoco_sim
                  THEN [cloned EXCEPT !["model_path"] =
                          IF defaultModel # <<>> THEN StrV(defaultModel)
                          ELSE IF cloned["model_path"].str # <<>>
                               THEN cloned["model_path"] ELSE StrV(<<>>)]
                  ELSE cloned
        newNode == [id |-> id, type |-> type, label |-> spec.label,
                    z |-> nextZ, params |-> params]
    IN /\ Len(nodes) < MaxNodes
       /\ maxZRef < MaxZ
       /\ maxZRef' = nextZ
       /\ nodes' = Append(nodes, newNode)
       /\ selectedNodeId' = Some(id)
       /\ UNCHANGED <<edges, pendingFrom, sessionVars>>

\* removeSelectedNode() without the edge cascade
removeSelectedNode_noCascade ==
  IF selectedNodeId = None \/ selectedNodeId = Some(<<>>) THEN UNCHANGED vars
  ELSE
    LET id == selectedNodeId[1]
    IN /\ nodes' = SelectSeq(nodes, LAMBDA n : n.id # id)
       /\ selectedNodeId' = None
       /\ UNCHANGED <<edges, pendingFrom, maxZRef, sessionVars>>

\* removeSelectedNode()
removeSelectedNode ==
  IF selectedNodeId = None \/ selectedNodeId = Some(<<>>) THEN UNCHANGED vars
  ELSE
    LET id == selectedNodeId[1]
    IN /\ nodes' = SelectSeq(nodes, LAMBDA n : n.id # id)
       /\ edges' = SelectSeq(edges, LAMBDA e :
                     ~(startsWith(e.from, id \o Dot) \/ startsWith(e.to, id \o Dot)))
       /\ selectedNodeId' = None
       /\ UNCHANGED <<pendingFrom, maxZRef, sessionVars>>

\* onNodeMouseDown(e, nodeId): select and bring to front
onNodeMouseDown(nodeId) ==
  /\ selectedNodeId' = Some(nodeId)
  /\ bringToFront(nodeId)
  /\ UNCHANGED <<edges, pendingFrom, sessionVars>>

\* the node's onDoubleClick
onNodeDoubleClick(nodeId) ==
  /\ bringToFront(nodeId)
  /\ UNCHANGED <<edges, selectedNodeId, pendingFrom, sessionVars>>

\* clearCanvas()
clearCanvas ==
  /\ nodes' = <<>>
  /\ edges' = <<>>
  /\ selectedNodeId' = None
  /\ UNCHANGED <<pendingFrom, maxZRef, sessionVars>>

----------------------------------------------------------------------------
(* Connections *)

edgeKey(nodeId, port) == nodeId \o Dot \o port

\* canConnect looking the nodes up before comparing their ids
canConnect_nodesFirst(from, to) ==
  LET fromNode == findNode(from.nodeId)
      toNode == findNode(to.nodeId)
      outType == IF fromNode = None THEN None
                 ELSE getPortType(fromNode[1].type, from.port, "output")
      inType == IF toNode = None THEN None
                ELSE getPortType(toNode[1].type, to.port, "input")
      fromKey == edgeKey(from.nodeId, from.port)
      toKey == edgeKey(to.nodeId, to.port)
      exists == \E i \in 1..Len(edges) :
                  edges[i].from = fromKey /\ edges[i].to = toKey
  IN IF fromNode = None \/ toNode = None
       THEN [ok |-> FALSE, reason |-> NodeNotFound, msg_type |-> None]
     ELSE IF from.nodeId = to.nodeId
       THEN [ok |-> FALSE, reason |-> SameNode, msg_type |-> None]
     ELSE IF outType = None \/ inType = None
       THEN [ok |-> FALSE, reason |-> PortNotFound, msg_type |-> None]
     ELSE IF outType # inType
       THEN [ok |-> FALSE, reason |-> TypeMismatch(outType[1], inType[1]),
             msg_type |-> None]
     ELSE IF exists
       THEN [ok |-> FALSE, reason |-> DuplicateEdge, msg_type |-> None]
     ELSE [ok |-> TRUE, reason |-> None, msg_type |-> outType]

\* canConnect without the look for an edge of the same pair
canConnect_noDuplicateCheck(from, to) ==
  LET fromNode == findNode(from.nodeId)
      toNode == findNode(to.nodeId)
      outType == IF fromNode = None THEN None
                 ELSE getPortType(fromNode[1].type, from.port, "output")
      inType == IF toNode = None THEN None
                ELSE getPortType(toNode[1].type, to.port, "input")
      fromKey == edgeKey(from.nodeId, from.port)
      toKey == edgeKey(to.nodeId, to.port)
      exists == \E i \in 1..Len(edges) :
                  edges[i].from = fromKey /\ edges[i].to = toKey
  IN IF from.nodeId = to.nodeId
       THEN [ok |-> FALSE, reason |-> SameNode, msg_type |-> None]
     ELSE IF fromNode = None \/ toNode = None
       THEN [ok |-> FALSE, reason |-> NodeNotFound, msg_type |-> None]
     ELSE IF outType = None \/ inType = None
       THEN [ok |-> FALSE, reason |-> PortNotFound, msg_type |-> None]
     ELSE IF outType # inType
       THEN [ok |-> FALSE, reason |-> TypeMismatch(outType[1], inType[1]),
             msg_type |-> None]
     ELSE [ok |-> TRUE, reason |-> None, msg_type |-> outType]

\* canConnect looking up only the node released on, so that a pending output
\* whose node is gone is answered as a missing port
canConnect_sourceUnchecked(from, to) ==
  LET fromNode == findNode(from.nodeId)
      toNode == findNode(to.nodeId)
      outType == IF fromNode = None THEN None
                 ELSE getPortType(fromNode[1].type, from.port, "output")
      inType == IF toNode = None THEN None
                ELSE getPortType(toNode[1].type, to.port, "input")
      fromKey == edgeKey(from.nodeId, from.port)
      toKey == edgeKey(to.nodeId, to.port)
      exists == \E i \in 1..Len(edges) :
                  edges[i].from = fromKey /\ edges[i].to = toKey
  IN IF from.nodeId = to.nodeId
       THEN [ok |-> FALSE, reason |-> SameNode, msg_type |-> None]
     ELSE IF toNode = None
       THEN [ok |-> FALSE, reason |-> NodeNotFound, msg_type |-> None]
     ELSE IF outType = None \/ inType = None
       THEN [ok |-> FALSE, reason |-> PortNotFound, msg_type |-> None]
     ELSE IF outType # inType
       THEN [ok |-> FALSE, reason |-> TypeMismatch(outType[1], inType[1]),
             msg_type |-> None]
     ELSE IF exists
       THEN [ok |-> FALSE, reason |-> DuplicateEdge, msg_type |-> None]
     ELSE [ok |-> TRUE, reason |-> None, msg_type |-> outType]

\* canConnect(from, to); both arguments are objects at its one call site, so
\* the "Missing endpoint" return is never taken
canConnect(from, to) ==
  LET fromNode == findNode(from.nodeId)
      toNode == findNode(to.nodeId)
      outType == IF fromNode = None THEN None
                 ELSE getPortType(fromNode[1].type, from.port, "output")
      inType == IF toNode = None THEN None
                ELSE getPortType(toNode[1].type, to.port, "input")
      fromKey == edgeKey(from.nodeId, from.port)
      toKey == edgeKey(to.nodeId, to.port)
      exists == \E i \in 1..Len(edges) :
                  edges[i].from = fromKey /\ edges[i].to = toKey
  IN IF from.nodeId = to.nodeId
       THEN [ok |-> FALSE, reason |-> SameNode, msg_type |-> None]
     ELSE IF fromNode = None \/ toNode = None
       THEN [ok |-> FALSE, reason |-> NodeNotFound, msg_type |-> None]
     ELSE IF outType = None \/ inType = None
       THEN [ok |-> FALSE, reason |-> PortNotFound, msg_type |-> None]
     ELSE IF outType # inType
       THEN [ok |-> FALSE, reason |-> TypeMismatch(outType[1], inType[1]),
             msg_type |-> None]
     ELSE IF exists
       THEN [ok |-> FALSE, reason |-> DuplicateEdge, msg_type |-> None]
     ELSE [ok |-> TRUE, reason |-> None, msg_type |-> outType]

\* onOutputMouseDown taking the port's type from either list of the block
onOutputMouseDown_anyPort(nodeId, portName) ==
  LET node == findNode(nodeId)
      msgType == IF node = None THEN None
                 ELSE IF getPortType(node[1].type, portName, "output") # None
                   THEN getPortType(node[1].type, portName, "output")
                 ELSE getPortType(node[1].type, portName, "input")
  IN IF node = None \/ msgType = None THEN UNCHANGED vars
     ELSE /\ pendingFrom' = Some([nodeId |-> nodeId, port |-> portName,
                                  msgType |-> msgType[1]])
          /\ UNCHANGED <<nodes, edges, selectedNodeId, maxZRef, sessionVars>>

\* onOutputMouseDown keeping the output that is already pending
onOutputMouseDown_keepFirst(nodeId, portName) ==
  LET node == findNode(nodeId)
      msgType == IF node = None THEN None
                 ELSE getPortType(node[1].type, portName, "output")
  IN IF node = None \/ msgType = None \/ pendingFrom # None THEN UNCHANGED vars
     ELSE /\ pendingFrom' = Some([nodeId |-> nodeId, port |-> portName,
                                  msgType |-> msgType[1]])
          /\ UNCHANGED <<nodes, edges, selectedNodeId, maxZRef, sessionVars>>

\* onOutputMouseDown(nodeId, portName): beginFrom
onOutputMouseDown(nodeId, portName) ==
  LET node == findNode(nodeId)
      msgType == IF node = None THEN None
                 ELSE getPortType(node[1].type, portName, "output")
  IN IF node = None \/ msgType = None THEN UNCHANGED vars
     ELSE /\ pendingFrom' = Some([nodeId |-> nodeId, port |-> portName,
                                  msgType |-> msgType[1]])
          /\ UNCHANGED <<nodes, edges, selectedNodeId, maxZRef, sessionVars>>

\* onInputMouseUp leaving the pending output in place when it rejects
onInputMouseUp_keepPending(nodeId, portName) ==
  IF pendingFrom = None THEN UNCHANGED vars
  ELSE
    LET to == [nodeId |-> nodeId, port |-> portName]
        check == canConnect([nodeId |-> pendingFrom[1].nodeId,
                             port |-> pendingFrom[1].port], to)
        fromKey == edgeKey(pendingFrom[1].nodeId, pendingFrom[1].port)
        toKey == edgeKey(nodeId, portName)
    IN IF ~check.ok
       THEN UNCHANGED vars
       ELSE /\ Len(edges) < MaxEdges
            /\ edges' = Append(edges, [from |-> fromKey, to |-> toKey,
                                       msg_type |-> check.msg_type[1]])
            /\ pendingFrom' = None
            /\ UNCHANGED <<nodes, selectedNodeId, maxZRef, sessionVars>>

\* onInputMouseUp(nodeId, portName): completeTo
onInputMouseUp(nodeId, portName) ==
  IF pendingFrom = None THEN UNCHANGED vars
  ELSE
    LET to == [nodeId |-> nodeId, port |-> portName]
        check == canConnect([nodeId |-> pendingFrom[1].nodeId,
                             port |-> pendingFrom[1].port], to)
        fromKey == edgeKey(pendingFrom[1].nodeId, pendingFrom[1].port)
        toKey == edgeKey(nodeId, portName)
    IN IF ~check.ok
       THEN /\ pendingFrom' = None
            /\ UNCHANGED <<nodes, edges, selectedNodeId, maxZRef, sessionVars>>
       ELSE /\ Len(edges) < MaxEdges
            /\ edges' = Append(edges, [from |-> fromKey, to |-> toKey,
                                       msg_type |-> check.msg_type[1]])
            /\ pendingFrom' = None
            /\ UNCHANGED <<nodes, selectedNodeId, maxZRef, sessionVars>>

\* removeEdge(idx); idx counts from 1 here, from 0 in the code
removeEdge(idx) ==
  /\ edges' = [i \in 1..(Len(edges) - 1) |->
                 IF i < idx THEN edges[i] ELSE edges[i + 1]]
  /\ UNCHANGED <<nodes, selectedNodeId, pendingFrom, maxZRef, sessionVars>>

\* the canvas's onMouseDown clearing the selection only
onCanvasMouseDown_keepPending ==
  /\ selectedNodeId' = None
  /\ UNCHANGED <<nodes, edges, pendingFrom, maxZRef, sessionVars>>

\* the canvas's onMouseDown: cancel
onCanvasMouseDown ==
  /\ IF pendingFrom # None
     THEN pendingFrom' = None
     ELSE UNCHANGED pendingFrom
  /\ selectedNodeId' = None
  /\ UNCHANGED <<nodes, edges, maxZRef, sessionVars>>

----------------------------------------------------------------------------
(* Inspector and run configuration *)

Infinity == <<"I","n","f","i","n","i","t","y">>

\* what the user can leave in a parameter field
RawInputs == {<<"7">>, Infinity}

\* String.prototype.trim() !== "", for the raw inputs of the model
trimmedNonEmpty(raw) == \E i \in 1..Len(raw) : raw[i] # " "

\* Number(raw), for the raw inputs of the model
Number(raw) ==
  IF raw = Infinity THEN InfV("Infinity")
  ELSE IF raw = <<"7">> THEN NumV("7")
  ELSE IF ~trimmedNonEmpty(raw) THEN NumV("0")
  ELSE [kind |-> "nan", num |-> "NaN", str |-> <<>>]

\* updateSelectedParam(key, value)
updateSelectedParam(key, value) ==
  IF selectedNodeId = None \/ selectedNodeId = Some(<<>>) THEN UNCHANGED vars
  ELSE /\ nodes' = [i \in 1..Len(nodes) |->
                      IF nodes[i].id # selectedNodeId[1] THEN nodes[i]
                      ELSE [nodes[i] EXCEPT !.params =
                              [k \in DOMAIN nodes[i].params \cup {key} |->
                                 IF k = key THEN value ELSE nodes[i].params[k]]]]
       /\ UNCHANGED <<edges, selectedNodeId, pendingFrom, maxZRef, sessionVars>>

\* the onChange of the Inspector's field for parameter k
onParamChange(k, raw) ==
  IF k = "model_path" THEN updateSelectedParam(k, StrV(raw))
  ELSE LET num == Number(raw)
           next == IF trimmedNonEmpty(raw) /\ num.kind # "nan" THEN num
                   ELSE StrV(raw)
       IN updateSelectedParam(k, next)

\* the onChange of the viewer checkbox
onViewerChange(checked) ==
  /\ runCfg' = [runCfg EXCEPT !.viewer = checked]
  /\ UNCHANGED <<nodes, edges, selectedNodeId, pendingFrom, maxZRef, sideVars>>

----------------------------------------------------------------------------
(* Execution order *)

\* the characters of the model in the order of the collation's primary
\* weights: white space, punctuation, digits, letters
CollationOrder ==
  <<" ", "_", ".", "0", "1", "2", "3", "4", "5", "6", "7", "8", "9",
    "a", "b", "c", "d", "e", "f", "g", "h", "i", "j", "k", "l", "m",
    "n", "o", "p", "q", "r", "s", "t", "u", "v", "w", "x", "y", "z">>

UpperCase ==
  <<"A", "B", "C", "D", "E", "F", "G", "H", "I", "J", "K", "L", "M",
    "N", "O", "P", "Q", "R", "S", "T", "U", "V", "W", "X", "Y", "Z">>

LowerCase ==
  <<"a", "b", "c", "d", "e", "f", "g", "h", "i", "j", "k", "l", "m",
    "n", "o", "p", "q", "r", "s", "t", "u", "v", "w", "x", "y", "z">>

\* primary weight: the place of the character, whatever its case
primary ==
  [c \in {CollationOrder[i] : i \in 1..Len(CollationOrder)}
         \cup {UpperCase[i] : i \in 1..Len(UpperCase)} |->
     IF \E i \in 1..Len(UpperCase) : UpperCase[i] = c
     THEN LET u == CHOOSE i \in 1..Len(UpperCase) : UpperCase[i] = c
          IN CHOOSE i \in 1..Len(CollationOrder) : CollationOrder[i] = LowerCase[u]
     ELSE CHOOSE i \in 1..Len(CollationOrder) : CollationOrder[i] = c]

\* tertiary weight: lower case before upper case
tertiary ==
  [c \in DOMAIN primary |->
     IF \E i \in 1..Len(UpperCase) : UpperCase[i] = c THEN 1 ELSE 0]

\* the sign of the first difference of two sequences of weights, the shorter
\* first when one is a prefix of the other
RECURSIVE compareWeights(_, _, _)
compareWeights(a, b, weight) ==
  IF a = <<>> /\ b = <<>> THEN 0
  ELSE IF a = <<>> THEN -1
  ELSE IF b = <<>> THEN 1
  ELSE IF weight[Head(a)] < weight[Head(b)] THEN -1
  ELSE IF weight[Head(a)] > weight[Head(b)] THEN 1
  ELSE compareWeights(Tail(a), Tail(b), weight)

\* String.prototype.localeCompare: the primary weights of the whole strings
\* decide, then the case
localeCompare(a, b) ==
  LET p == compareWeights(a, b, primary)
  IN IF p # 0 THEN p ELSE compareWeights(a, b, tertiary)

\* prio(type) of computeExecutionOrder
prio(type) ==
  LET cat == IF type \in DOMAIN BLOCK_CATALOG THEN BLOCK_CATALOG[type].category
             ELSE "other"
  IN CASE cat = "input" -> 0
       [] cat = "control" -> 1
       [] cat = "sim" -> 2
       [] cat = "sink" -> 3
       [] OTHER -> 4

\* byOrder(a, b) of computeExecutionOrder
byOrder(a, b) ==
  LET pa == prio(a.type)
      pb == prio(b.type)
  IN IF pa # pb THEN pa - pb
     ELSE localeCompare(a.label \o a.id, b.label \o b.id)

\* Array.prototype.sort with byOrder, which is stable: n goes behind every
\* element of the sorted list that does not compare greater than it
insertSorted(sorted, n) ==
  LET k == Cardinality({i \in 1..Len(sorted) :
                          \E j \in i..Len(sorted) : byOrder(sorted[j], n) <= 0})
  IN SubSeq(sorted, 1, k) \o <<n>> \o SubSeq(sorted, k + 1, Len(sorted))

RECURSIVE sortByOrder(_)
sortByOrder(list) ==
  IF list = <<>> THEN <<>>
  ELSE insertSorted(sortByOrder(SubSeq(list, 1, Len(list) - 1)), list[Len(list)])

\* computeExecutionOrder(nodes)
computeExecutionOrder(list) ==
  LET sorted == sortByOrder(list)
  IN [i \in 1..Len(sorted) |-> sorted[i].id]

----------------------------------------------------------------------------
(* graph.v1 export and import *)

\* A parsed JSON document: version, nodes, edges and run_config are null when
\* the field is missing (for nodes and edges: or is no array).  An element of
\* nodes or edges is an object or, with isNull, the JSON null.

\* buildGraphV1()
buildGraphV1 ==
  [version |-> Some("graph.v1"),
   execution_order |-> computeExecutionOrder(nodes),
   nodes |-> Some([i \in 1..Len(nodes) |->
                     [isNull |-> FALSE, id |-> nodes[i].id, type |-> nodes[i].type,
                      label |-> Some(nodes[i].label),
                      params |-> Some(nodes[i].params)]]),
   edges |-> Some([i \in 1..Len(edges) |->
                     [isNull |-> FALSE, from |-> edges[i].from, to |-> edges[i].to,
                      msg_type |-> edges[i].msg_type]]),
   run_config |-> Some(runCfg)]

\* JSON.parse(JSON.stringify(g)) of a document built by buildGraphV1, as
\* downloadGraph writes it and importGraph reads it back
jsonDocument(g) ==
  [g EXCEPT !.nodes =
     Some([i \in 1..Len(g.nodes[1]) |->
             [g.nodes[1][i] EXCEPT !.params = Some(jsonObject(g.nodes[1][i].params[1]))]])]

\* importOutcome without the look at the version
importOutcome_anyVersion(g) ==
  LET gNodes == IF g.nodes # None THEN g.nodes[1] ELSE <<>>
      gEdges == IF g.edges # None THEN g.edges[1] ELSE <<>>
      gRun == IF g.run_config # None THEN g.run_config[1] ELSE runCfg
      nextNodes == [i \in 1..Len(gNodes) |->
                      [id |-> gNodes[i].id, type |-> gNodes[i].type,
                       label |-> gNodes[i].type, z |-> i, params |-> <<>>]]
      maxZ == IF Len(gNodes) > 1 THEN Len(gNodes) ELSE 1
      nextEdges == [i \in 1..Len(gEdges) |->
                      [from |-> gEdges[i].from, to |-> gEdges[i].to,
                       msg_type |-> gEdges[i].msg_type]]
  IN [threw |-> FALSE, nodes |-> nextNodes, edges |-> nextEdges, runCfg |-> gRun,
      maxZRef |-> maxZ, selectedNodeId |-> None]

\* importOutcome refusing a document without a nodes or an edges array
importOutcome_requireArrays(g) ==
  LET unchanged == [nodes |-> nodes, edges |-> edges, runCfg |-> runCfg,
                    maxZRef |-> maxZRef, selectedNodeId |-> selectedNodeId]
      gNodes == IF g.nodes # None THEN g.nodes[1] ELSE <<>>
      gEdges == IF g.edges # None THEN g.edges[1] ELSE <<>>
      gRun == IF g.run_config # None THEN g.run_config[1] ELSE runCfg
      nextNodes == [i \in 1..Len(gNodes) |->
                      [id |-> gNodes[i].id,
                       type |-> gNodes[i].type,
                       label |-> IF gNodes[i].label # None /\ gNodes[i].label # Some(<<>>)
                                   THEN gNodes[i].label[1]
                                 ELSE IF gNodes[i].type \in DOMAIN BLOCK_CATALOG
                                   THEN BLOCK_CATALOG[gNodes[i].type].label
                                 ELSE gNodes[i].type,
                       z |-> i,
                       params |-> IF gNodes[i].params # None THEN gNodes[i].params[1]
                                  ELSE <<>>]]
      maxZ == IF Len(gNodes) > 1 THEN Len(gNodes) ELSE 1
      nextEdges == [i \in 1..Len(gEdges) |->
                      [from |-> gEdges[i].from, to |-> gEdges[i].to,
                       msg_type |-> gEdges[i].msg_type]]
  IN IF g.version # Some("graph.v1") \/ g.nodes = None \/ g.edges = None
       THEN [threw |-> TRUE] @@ unchanged
     ELSE IF \E i \in 1..Len(gNodes) : gNodes[i].isNull
       THEN [threw |-> TRUE] @@ unchanged
     ELSE IF \E i \in 1..Len(gEdges) : gEdges[i].isNull
       THEN [threw |-> TRUE, nodes |-> nextNodes, edges |-> edges, runCfg |-> runCfg,
             maxZRef |-> maxZ, selectedNodeId |-> selectedNodeId]
     ELSE [threw |-> FALSE, nodes |-> nextNodes, edges |-> nextEdges, runCfg |-> gRun,
           maxZRef |-> maxZ, selectedNodeId |-> None]

\* what reader.onload of importGraph does with the parsed document g: the
\* values it has set when it returns, and whether it threw
importOutcome(g) ==
  LET unchanged == [nodes |-> nodes, edges |-> edges, runCfg |-> runCfg,
                    maxZRef |-> maxZRef, selectedNodeId |-> selectedNodeId]
      gNodes == IF g.nodes # None THEN g.nodes[1] ELSE <<>>
      gEdges == IF g.edges # None THEN g.edges[1] ELSE <<>>
      gRun == IF g.run_config # None THEN g.run_config[1] ELSE runCfg
      nextNodes == [i \in 1..Len(gNodes) |->
                      [id |-> gNodes[i].id,
                       type |-> gNodes[i].type,
                       label |-> IF gNodes[i].label # None /\ gNodes[i].label # Some(<<>>)
                                   THEN gNodes[i].label[1]
                                 ELSE IF gNodes[i].type \in DOMAIN BLOCK_CATALOG
                                   THEN BLOCK_CATALOG[gNodes[i].type].label
                                 ELSE gNodes[i].type,
                       z |-> i,
                       params |-> IF gNodes[i].params # None THEN gNodes[i].params[1]
                                  ELSE <<>>]]
      maxZ == IF Len(gNodes) > 1 THEN Len(gNodes) ELSE 1
      nextEdges == [i \in 1..Len(gEdges) |->
                      [from |-> gEdges[i].from, to |-> gEdges[i].to,
                       msg_type |-> gEdges[i].msg_type]]
  IN IF g.version # Some("graph.v1")
       THEN [threw |-> TRUE] @@ unchanged
     ELSE IF \E i \in 1..Len(gNodes) : gNodes[i].isNull
       THEN [threw |-> TRUE] @@ unchanged
     ELSE IF \E i \in 1..Len(gEdges) : gEdges[i].isNull
       THEN [threw |-> TRUE, nodes |-> nextNodes, edges |-> edges, runCfg |-> runCfg,
             maxZRef |-> maxZ, selectedNodeId |-> selectedNodeId]
     ELSE [threw |-> FALSE, nodes |-> nextNodes, edges |-> nextEdges, runCfg |-> gRun,
           maxZRef |-> maxZ, selectedNodeId |-> None]

\* importGraph(file), with g what JSON.parse makes of the file's text; the
\* FileReader's callback is taken at the moment it runs, with the runCfg of
\* that moment
importGraph(g) ==
  LET o == importOutcome(g)
  IN /\ nodes' = o.nodes
     /\ edges' = o.edges
     /\ runCfg' = o.runCfg
     /\ maxZRef' = o.maxZRef
     /\ selectedNodeId' = o.selectedNodeId
     /\ UNCHANGED <<pendingFrom, sideVars>>

\* the files of the model
NullItem == [isNull |-> TRUE, id |-> <<>>, type |-> <<>>, label |-> None,
             params |-> None]
NullEdge == [isNull |-> TRUE, from |-> <<>>, to |-> <<>>, msg_type |-> ""]

NodeItem(id, type, label) ==
  [isNull |-> FALSE, id |-> id, type |-> type, label |-> label, params |-> None]

\* three nodes: "a" and "a.a", two simulators whose label + id are the same
\* string, and a controller "c" wired to "a.a"
FileNodes ==
  << NodeItem(<<"a">>, mujoco_sim, Some(<<"x","a",".">>)),
     NodeItem(<<"a",".","a">>, mujoco_sim, Some(<<"x">>)),
     NodeItem(<<"c">>, cartesian_control, None) >>

\* two simulators whose label + id strings, "Yp" and "xq", are in one order
\* by code unit and in the other by collation
CaseNodes ==
  << NodeItem(<<"p">>, mujoco_sim, Some(<<"Y">>)),
     NodeItem(<<"q">>, mujoco_sim, Some(<<"x">>)) >>

FileEdges ==
  << [isNull |-> FALSE, from |-> <<"c",".","c","o","m","m","a","n","d">>,
      to |-> <<"a",".","a",".","c","o","m","m","a","n","d">>,
      msg_type |-> "cartesian_cmd"] >>

FileRunConfig == [duration_sec |-> 5, hz |-> 20, viewer |-> FALSE]

\* the files the import is given: those of version "graph.v1", with each
\* field missing, well formed or holding a null element, and one file for
\* each other version
Files ==
  [version : {Some("graph.v1")},
   execution_order : {<<>>},
   nodes : {None, Some(FileNodes), Some(CaseNodes), Some(<<NullItem>>)},
   edges : {None, Some(FileEdges), Some(<<NullEdge>>)},
   run_config : {None, Some(FileRunConfig)}]
  \cup
  [version : {None, Some("graph.v2")},
   execution_order : {<<>>},
   nodes : {Some(FileNodes)},
   edges : {Some(FileEdges)},
   run_config : {Some(FileRunConfig)}]

----------------------------------------------------------------------------
(* Interactive editing *)

AddNode == \E type \in DOMAIN BLOCK_CATALOG \cup {AbsentId}, u \in UidPool :
  addNode(type, u)

RemoveSelectedNode == removeSelectedNode

NodeMouseDown == \E i \in 1..Len(nodes) : onNodeMouseDown(nodes[i].id)

NodeDoubleClick == \E i \in 1..Len(nodes) : onNodeDoubleClick(nodes[i].id)

OutputMouseDown == \E nodeId \in NodeIds \cup {AbsentId}, p \in PortNames :
  onOutputMouseDown(nodeId, p)

InputMouseUp == \E nodeId \in NodeIds \cup {AbsentId}, p \in PortNames :
  onInputMouseUp(nodeId, p)

RemoveEdge == \E idx \in 1..Len(edges) : removeEdge(idx)

CanvasMouseDown == onCanvasMouseDown

ClearCanvas == clearCanvas

EditNext ==
  \/ AddNode
  \/ RemoveSelectedNode
  \/ NodeMouseDown
  \/ NodeDoubleClick
  \/ OutputMouseDown
  \/ InputMouseUp
  \/ RemoveEdge
  \/ CanvasMouseDown
  \/ ClearCanvas

Next == EditNext

Spec == Init /\ [][Next]_vars

----------------------------------------------------------------------------
(* Editing with the Inspector *)

\* the parameters whose field the user edits
ParamKeys == {"model_path", "goal_x"}

ParamChange ==
  \E k \in ParamKeys, raw \in RawInputs :
    /\ \E i \in 1..Len(nodes) :
         Some(nodes[i].id) = selectedNodeId /\ k \in DOMAIN nodes[i].params
    /\ onParamChange(k, raw)

InspectNext ==
  \/ EditNext
  \/ ParamChange

SpecInspect == Init /\ [][InspectNext]_vars

----------------------------------------------------------------------------
(* Import: the starter graph and the graphs of the files, edited without    *)
(* adding nodes                                                             *)

ViewerChange == \E checked \in BOOLEAN : onViewerChange(checked)

ImportGraph == \E g \in Files : importGraph(g)

IONext ==
  \/ RemoveSelectedNode
  \/ NodeMouseDown
  \/ NodeDoubleClick
  \/ OutputMouseDown
  \/ InputMouseUp
  \/ RemoveEdge
  \/ CanvasMouseDown
  \/ ClearCanvas
  \/ ImportGraph

SpecIO == Init /\ [][IONext]_vars

----------------------------------------------------------------------------
(* The local snapshot *)

\* saveNow(): the payload as JSON.stringify writes it and JSON.parse reads it
\* back; a stored z is a nullable, null when the node object has no number z
saveNow ==
  /\ storage' = Some([nodes |-> [i \in 1..Len(nodes) |->
                                   [id |-> nodes[i].id, type |-> nodes[i].type,
                                    label |-> nodes[i].label, z |-> Some(nodes[i].z),
                                    params |-> jsonObject(nodes[i].params)]],
                      edges |-> edges,
                      runCfg |-> runCfg])
  /\ UNCHANGED <<nodes, edges, selectedNodeId, pendingFrom, maxZRef, runCfg,
                 defaultModel, runStatus, requests>>

\* the largest z taken to be the number of nodes
maxOf_fromLength(zs) == IF zs = <<>> THEN 1 ELSE Len(zs)

\* Math.max over a sequence of z values, starting from 1
RECURSIVE maxOf(_)
maxOf(zs) ==
  IF zs = <<>> THEN 1
  ELSE LET rest == maxOf(Tail(zs)) IN IF Head(zs) > rest THEN Head(zs) ELSE rest

\* loadLastSaved giving every node the z of its place in the array
loadLastSaved_zFromIndex ==
  IF storage = None THEN UNCHANGED vars
  ELSE LET payload == storage[1]
           fixedNodes == [i \in 1..Len(payload.nodes) |->
                            [payload.nodes[i] EXCEPT !.z = i]]
       IN /\ maxZRef' = maxOf([i \in 1..Len(fixedNodes) |-> fixedNodes[i].z])
          /\ nodes' = fixedNodes
          /\ edges' = payload.edges
          /\ runCfg' = payload.runCfg
          /\ selectedNodeId' = None
          /\ UNCHANGED <<pendingFrom, defaultModel, runStatus, requests, storage>>

\* loadLastSaved()
loadLastSaved ==
  IF storage = None THEN UNCHANGED vars
  ELSE LET payload == storage[1]
           fixedNodes == [i \in 1..Len(payload.nodes) |->
                            [payload.nodes[i] EXCEPT
                               !.z = IF @ # None THEN @[1] ELSE i]]
       IN /\ maxZRef' = maxOf([i \in 1..Len(fixedNodes) |-> fixedNodes[i].z])
          /\ nodes' = fixedNodes
          /\ edges' = payload.edges
          /\ runCfg' = payload.runCfg
          /\ selectedNodeId' = None
          /\ UNCHANGED <<pendingFrom, defaultModel, runStatus, requests, storage>>

SaveNow == saveNow

LoadLastSaved == loadLastSaved

\* the palette's Logger button
AddLogger == \E u \in UidPool : addNode(logger, u)

\* the three nodes, each with a z of its own in the document, in falling order
StampedNodes ==
  [i \in 1..Len(FileNodes) |-> FileNodes[i] @@ [z |-> Some(Len(FileNodes) + 1 - i)]]

\* the files of the z-order scenarios: the empty graph and the three nodes,
\* without and with a z in the document
ZFiles ==
  [version : {Some("graph.v1")},
   execution_order : {<<>>},
   nodes : {None, Some(FileNodes), Some(StampedNodes)},
   edges : {None},
   run_config : {None}]

ImportNodes == \E g \in ZFiles : importGraph(g)

\* editing the nodes, the snapshot and import
ZNext ==
  \/ AddLogger
  \/ NodeMouseDown
  \/ RemoveSelectedNode
  \/ ClearCanvas
  \/ SaveNow
  \/ LoadLastSaved
  \/ ImportNodes

SpecZ == Init /\ [][ZNext]_vars

\* a node as a snapshot holds it, with params as addNode made them
SavedNode(type, u, z) ==
  [id |-> newId(type, u), type |-> type, label |-> BLOCK_CATALOG[type].label,
   z |-> z, params |-> jsonObject(deepClone(BLOCK_CATALOG[type].params))]

\* what localStorage can hold when the session starts: a logger and a
\* simulator, with no z on either node, or with no z on the logger and the
\* z 3 on the simulator
Snapshots ==
  {[nodes |-> << SavedNode(logger, <<"7">>, None), SavedNode(mujoco_sim, <<"7">>, z) >>,
    edges |-> <<>>,
    runCfg |-> FileRunConfig] : z \in {None, Some(3)}}

\* a session that starts with or without a snapshot in localStorage
InitSnap == InitStore /\ storage \in {None} \cup {Some(p) : p \in Snapshots}

SpecSnap == InitSnap /\ [][ZNext]_vars

----------------------------------------------------------------------------
(* Run via the API *)

\* the runs one session starts
MaxRuns == 2

NoMuJoCo == <<"No MuJoCo sim node">>
ModelPathEmpty(id) == <<"Model path is empty on ", id>>
NoConnections == <<"No connections (edges) yet">>
TrimNotAFunction == <<"TypeError: trim is not a function">>

\* n.params?.model_path || "": the value, or the empty string when it is
\* missing, null, the empty string or the number 0
modelPathOrEmpty(params) ==
  IF "model_path" \notin DOMAIN params THEN StrV(<<>>)
  ELSE LET v == params["model_path"]
       IN IF v.kind = "null" THEN StrV(<<>>)
          ELSE IF v.kind = "num" /\ v.num = "0" THEN StrV(<<>>)
          ELSE v

\* validateForRun without the look at the edges
validateForRun_noEdgeCheck ==
  LET sims == SelectSeq(nodes, LAMBDA n : n.type = mujoco_sim)
      bad == SelectSeq(sims, LAMBDA n :
               \/ modelPathOrEmpty(n.params).kind # "str"
               \/ ~trimmedNonEmpty(modelPathOrEmpty(n.params).str))
  IN IF sims = <<>> THEN [ok |-> FALSE, reason |-> NoMuJoCo]
     ELSE IF bad # <<>> THEN [ok |-> FALSE, reason |-> ModelPathEmpty(Head(bad).id)]
     ELSE [ok |-> TRUE, reason |-> <<>>]

\* validateForRun(); a model_path that is a number other than 0 has no trim(),
\* and the call throws
validateForRun ==
  LET sims == SelectSeq(nodes, LAMBDA n : n.type = mujoco_sim)
      bad == SelectSeq(sims, LAMBDA n :
               \/ modelPathOrEmpty(n.params).kind # "str"
               \/ ~trimmedNonEmpty(modelPathOrEmpty(n.params).str))
  IN IF sims = <<>> THEN [ok |-> FALSE, reason |-> NoMuJoCo]
     ELSE IF bad # <<>> THEN
       IF modelPathOrEmpty(Head(bad).params).kind # "str"
         THEN [ok |-> FALSE, reason |-> TrimNotAFunction]
         ELSE [ok |-> FALSE, reason |-> ModelPathEmpty(Head(bad).id)]
     ELSE IF Len(edges) = 0 THEN [ok |-> FALSE, reason |-> NoConnections]
     ELSE [ok |-> TRUE, reason |-> <<>>]

\* The run status: loading, or run_dir and metrics, or error.  `run` tells
\* which call of runFromUI made the setRunStatus; the page does not show it.
Loading(run) == [loading |-> TRUE, outcome |-> "none", run |-> run]
Succeeded(run) == [loading |-> FALSE, outcome |-> "succeeded", run |-> run]
Failed(run) == [loading |-> FALSE, outcome |-> "failed", run |-> run]

\* runFromUI({ headless }) up to its first await: the guard, the loading
\* status and the fetch.  A request keeps the statuses its call has set.
runFromUI(headless) ==
  IF ~validateForRun.ok THEN UNCHANGED vars
  ELSE /\ Len(requests) < MaxRuns
       /\ runStatus' = Some(Loading(Len(requests) + 1))
       /\ requests' = Append(requests, [headless |-> headless, set |-> <<"loading">>])
       /\ UNCHANGED <<nodes, edges, selectedNodeId, pendingFrom, maxZRef, runCfg,
                      defaultModel, storage>>

\* what the execution service answers, or the failure of the request
Responses == {"2xx", "non-2xx", "network failure"}

\* onResponse that starts the request again when it has failed
onResponse_retryOnFailure(run, response) ==
  /\ run \in 1..Len(requests)
  /\ requests[run].set = <<"loading">>
  /\ IF response = "2xx"
       THEN /\ runStatus' = Some(Succeeded(run))
            /\ requests' = [requests EXCEPT ![run].set = Append(@, "succeeded")]
       ELSE /\ runStatus' = Some(Failed(run))
            /\ requests' = Append([requests EXCEPT ![run].set = Append(@, "failed")],
                                  [headless |-> requests[run].headless,
                                   set |-> <<"loading">>])
  /\ UNCHANGED <<nodes, edges, selectedNodeId, pendingFrom, maxZRef, runCfg,
                 defaultModel, storage>>

\* the rest of runFromUI for request `run`, when fetch settles
onResponse(run, response) ==
  /\ run \in 1..Len(requests)
  /\ requests[run].set = <<"loading">>
  /\ LET outcome == IF response = "2xx" THEN "succeeded" ELSE "failed"
     IN /\ runStatus' = Some([loading |-> FALSE, outcome |-> outcome, run |-> run])
        /\ requests' = [requests EXCEPT ![run].set = Append(@, outcome)]
  /\ UNCHANGED <<nodes, edges, selectedNodeId, pendingFrom, maxZRef, runCfg,
                 defaultModel, storage>>

\* what the user can leave in the model_path field
ModelPathInputs == {<<"7">>, <<" ">>}

ModelPathChange ==
  \E raw \in ModelPathInputs :
    /\ \E i \in 1..Len(nodes) :
         Some(nodes[i].id) = selectedNodeId /\ "model_path" \in DOMAIN nodes[i].params
    /\ onParamChange("model_path", raw)

RunFromUI == \E headless \in BOOLEAN : runFromUI(headless)

Response(run) == \E response \in Responses : onResponse(run, response)

Respond == \E run \in 1..MaxRuns : Response(run)

RunNext ==
  \/ NodeMouseDown
  \/ ModelPathChange
  \/ OutputMouseDown
  \/ InputMouseUp
  \/ ClearCanvas
  \/ ViewerChange
  \/ RunFromUI
  \/ Respond

SpecRun == Init /\ [][RunNext]_vars

\* fetch settles: the service answers or the request fails
SpecRunFair == SpecRun /\ \A run \in 1..MaxRuns : WF_vars(Response(run))

----------------------------------------------------------------------------
(* What the claims speak of *)

\* the key names port `port` of node `id`
EndpointOn(key, id) == \E port \in PortNames : key = edgeKey(id, port)

\* the declared ports of the block type, as a set of [name, type]
DeclaredPorts(type, direction) ==
  IF type \notin DOMAIN BLOCK_CATALOG THEN {}
  ELSE LET list == IF direction = "input" THEN BLOCK_CATALOG[type].inputs
                   ELSE BLOCK_CATALOG[type].outputs
       IN {list[i] : i \in 1..Len(list)}

\* the key names a declared port, in the given direction and of the given
\* data type, of a node in the store
DeclaredEndpoint(key, direction, dataType) ==
  \E i \in 1..Len(nodes) : \E p \in DeclaredPorts(nodes[i].type, direction) :
    key = edgeKey(nodes[i].id, p.name) /\ p.type = dataType

\* the endpoints a handler can be called with
Endpoints == [nodeId : NodeIds \cup {AbsentId}, port : PortNames]

PendingEndpoint == [nodeId |-> pendingFrom[1].nodeId, port |-> pendingFrom[1].port]

\* the data types of the declared ports named `port`, in the given direction,
\* of the nodes with this id
PortTypes(endpoint, direction) ==
  {p.type : p \in UNION {IF nodes[i].id = endpoint.nodeId
                          THEN {q \in DeclaredPorts(nodes[i].type, direction) :
                                  q.name = endpoint.port}
                          ELSE {} : i \in 1..Len(nodes)}}

\* the five checks of the connection protocol, in the order it names them;
\* the result is the first that fails, or "ok"
FirstFailure(from, to) ==
  IF from.nodeId = to.nodeId THEN "SameNode"
  ELSE IF from.nodeId \notin NodeIds \/ to.nodeId \notin NodeIds THEN "NodeNotFound"
  ELSE IF PortTypes(from, "output") = {} \/ PortTypes(to, "input") = {}
    THEN "PortNotFound"
  ELSE IF PortTypes(from, "output") # PortTypes(to, "input") THEN "TypeMismatch"
  ELSE IF \E i \in 1..Len(edges) :
            /\ edges[i].from = edgeKey(from.nodeId, from.port)
            /\ edges[i].to = edgeKey(to.nodeId, to.port)
    THEN "DuplicateEdge"
  ELSE "ok"

\* the reason canConnect gives, by the name the protocol gives it
ReasonName(check) ==
  IF check.ok THEN "ok"
  ELSE IF check.reason = SameNode THEN "SameNode"
  ELSE IF check.reason = NodeNotFound THEN "NodeNotFound"
  ELSE IF check.reason = PortNotFound THEN "PortNotFound"
  ELSE IF check.reason = DuplicateEdge THEN "DuplicateEdge"
  ELSE IF check.reason[1] = "Type mismatch: " THEN "TypeMismatch"
  ELSE "other"

----------------------------------------------------------------------------
(* Claims *)

\* C1: after any sequence of interactive editing operations from the starter
\* graph, both endpoints of every edge are on a node present in the store.
C1_NoDanglingEdge ==
  \A i \in 1..Len(edges) :
    /\ \E j \in 1..Len(nodes) : EndpointOn(edges[i].from, nodes[j].id)
    /\ \E j \in 1..Len(nodes) : EndpointOn(edges[i].to, nodes[j].id)

\* a starter node has been deleted, and an edge to a node added later is left
C1_Witness ==
  /\ Len(nodes) = 2
  /\ edges # <<>>
  /\ \E j \in 1..Len(nodes) : nodes[j].type = logger

\* C2: every edge the connection engine committed goes from a declared output
\* port of its from-node to a declared input port of its to-node, the two
\* ports have the same data type, and the edge's msg_type is that type.
C2_EdgesWellTyped ==
  \A i \in 1..Len(edges) :
    /\ DeclaredEndpoint(edges[i].from, "output", edges[i].msg_type)
    /\ DeclaredEndpoint(edges[i].to, "input", edges[i].msg_type)

\* two edges of different data types have been committed
C2_Witness ==
  /\ Len(edges) = 2
  /\ edges[1].msg_type # edges[2].msg_type

\* C3: when onInputMouseUp rejects the connection, for whichever reason, the
\* nodes and the edges are as before and the engine is idle.
C3_RejectLeavesStore ==
  \A to \in Endpoints :
    (pendingFrom # None /\ ~canConnect(PendingEndpoint, to).ok) =>
      /\ ENABLED onInputMouseUp(to.nodeId, to.port)
      /\ ~ENABLED ( /\ onInputMouseUp(to.nodeId, to.port)
                    /\ ~(nodes' = nodes /\ edges' = edges /\ pendingFrom' = None) )

\* an output is pending, there is an edge, and each of the five reasons is
\* the answer for some input the user can release on
C3_Witness ==
  /\ pendingFrom # None
  /\ edges # <<>>
  /\ \A r \in {"SameNode", "NodeNotFound", "PortNotFound", "TypeMismatch",
               "DuplicateEdge"} :
       \E to \in Endpoints : ReasonName(canConnect(PendingEndpoint, to)) = r

\* C4: for every pending endpoint, target and store, canConnect reports the
\* first failing check in the order SameNode, NodeNotFound, PortNotFound,
\* TypeMismatch, DuplicateEdge, and accepts exactly when no check fails.
C4_FirstFailureWins ==
  \A from \in Endpoints, to \in Endpoints :
    ReasonName(canConnect(from, to)) = FirstFailure(from, to)

\* the pending output's node has been deleted; a release on a port that is no
\* input of a node of the store fails two checks, and so does, with an edge in
\* the store, a release on the pending node
C4_Witness ==
  /\ pendingFrom # None
  /\ pendingFrom[1].nodeId \notin NodeIds
  /\ edges # <<>>
  /\ \E to \in Endpoints :
       /\ to.nodeId \in NodeIds
       /\ PortTypes(to, "input") = {}

\* C5: no two edges of the store have the same (from, to) pair, and a release
\* that would repeat an edge's pair is rejected as a duplicate and adds nothing.
C5_NoDuplicateEdge ==
  /\ \A i \in 1..Len(edges), j \in 1..Len(edges) :
       (edges[i].from = edges[j].from /\ edges[i].to = edges[j].to) => i = j
  /\ pendingFrom # None =>
       \A to \in Endpoints :
         (\E i \in 1..Len(edges) :
            /\ edges[i].from = edgeKey(PendingEndpoint.nodeId, PendingEndpoint.port)
            /\ edges[i].to = edgeKey(to.nodeId, to.port))
         => ~canConnect(PendingEndpoint, to).ok

\* the pending output and some input are the two ends of an edge of the store
C5_Witness ==
  /\ pendingFrom # None
  /\ \E to \in Endpoints : ReasonName(canConnect(PendingEndpoint, to)) = "DuplicateEdge"

\* the edge has an endpoint on a declared port name of the node `id`
Incident(e, id) == EndpointOn(e.from, id) \/ EndpointOn(e.to, id)

\* the list without its first node of this id
WithoutNode(list, id) ==
  LET i == CHOOSE i \in 1..Len(list) :
             list[i].id = id /\ \A j \in 1..(i - 1) : list[j].id # id
  IN SubSeq(list, 1, i - 1) \o SubSeq(list, i + 1, Len(list))

\* C6: removing the selected node n removes n and exactly the edges with an
\* endpoint on n, every other node and edge staying; with no node selected
\* nothing changes.
C6_RemovesExactlyIncident ==
  /\ selectedNodeId = None =>
       ~ENABLED (removeSelectedNode /\ ~(nodes' = nodes /\ edges' = edges))
  /\ (selectedNodeId # None /\ selectedNodeId[1] \in NodeIds) =>
       ~ENABLED ( /\ removeSelectedNode
                  /\ ~( /\ nodes' = WithoutNode(nodes, selectedNodeId[1])
                        /\ edges' = SelectSeq(edges, LAMBDA e :
                                      ~Incident(e, selectedNodeId[1])) ) )

\* C7: an import whose version is missing or is not "graph.v1" leaves the
\* nodes, the edges, the run configuration and the z counter as they were.
C7_VersionRejected ==
  \A g \in Files :
    g.version # Some("graph.v1") =>
      /\ importOutcome(g).threw
      /\ ENABLED importGraph(g)
      /\ ~ENABLED ( /\ importGraph(g)
                    /\ ~( /\ nodes' = nodes
                          /\ edges' = edges
                          /\ runCfg' = runCfg
                          /\ maxZRef' = maxZRef ) )

\* a store that no file of the model would leave as it is: its nodes, edges,
\* run configuration and z counter all differ from what the files hold
C7_Witness ==
  /\ Len(nodes) = 2
  /\ Len(edges) = 2
  /\ runCfg # FileRunConfig
  /\ maxZRef = MaxZ

\* C8: an import that fails leaves the nodes, the edges and the run
\* configuration as they were; the nodes are never replaced without the edges.
C8_ImportAllOrNothing ==
  \A g \in Files :
    importOutcome(g).threw =>
      ~ENABLED ( /\ importGraph(g)
                 /\ ~(nodes' = nodes /\ edges' = edges /\ runCfg' = runCfg) )

\* C9: exporting the store with buildGraphV1 and importing the file gives the
\* same nodes (ids, types, params, in order), edges and run configuration.
C9_RoundTrip ==
  LET o == importOutcome(jsonDocument(buildGraphV1))
  IN /\ ~o.threw
     /\ Len(o.nodes) = Len(nodes)
     /\ \A i \in 1..Len(nodes) :
          /\ o.nodes[i].id = nodes[i].id
          /\ o.nodes[i].type = nodes[i].type
          /\ o.nodes[i].params = nodes[i].params
     /\ o.edges = edges
     /\ o.runCfg = runCfg

\* C10: computeExecutionOrder gives the same order of ids for the nodes of
\* the store in whatever array order they are given.
C10_OrderIgnoresArrayOrder ==
  \A pi \in Permutations(1..Len(nodes)) :
    computeExecutionOrder([i \in 1..Len(nodes) |-> nodes[pi[i]]])
      = computeExecutionOrder(nodes)

\* the tier of a block type: input, control, sim, sink, then the rest
Tier(type) ==
  IF type \notin DOMAIN BLOCK_CATALOG THEN 4
  ELSE LET cat == BLOCK_CATALOG[type].category
       IN IF cat = "input" THEN 0
          ELSE IF cat = "control" THEN 1
          ELSE IF cat = "sim" THEN 2
          ELSE IF cat = "sink" THEN 3
          ELSE 4

\* the places of the id in the order
Places(order, id) == {k \in 1..Len(order) : order[k] = id}

\* C11: computeExecutionOrder gives each node's id exactly once, and a node
\* of an earlier tier comes before every node of a later tier.
C11_TotalOrderByTier ==
  LET order == computeExecutionOrder(nodes)
  IN /\ Len(order) = Len(nodes)
     /\ \A i \in 1..Len(nodes) : Cardinality(Places(order, nodes[i].id)) = 1
     /\ \A i, j \in 1..Len(nodes) :
          Tier(nodes[i].type) < Tier(nodes[j].type) =>
            \A k \in Places(order, nodes[i].id), l \in Places(order, nodes[j].id) :
              k < l

\* the characters of the model in the order of their UTF-16 code units
CodeUnitOrder ==
  <<" ", ".", "0", "1", "2", "3", "4", "5", "6", "7", "8", "9">>
    \o UpperCase \o <<"_">> \o LowerCase

CodeUnit(c) == CHOOSE i \in 1..Len(CodeUnitOrder) : CodeUnitOrder[i] = c

\* a is lexicographically smaller than b: a proper prefix of b, or smaller at
\* the first place where they differ
RECURSIVE lexLess(_, _)
lexLess(a, b) ==
  IF b = <<>> THEN FALSE
  ELSE IF a = <<>> THEN TRUE
  ELSE IF Head(a) # Head(b) THEN CodeUnit(Head(a)) < CodeUnit(Head(b))
  ELSE lexLess(Tail(a), Tail(b))

\* C12: within one tier, the node whose string label + id is lexicographically
\* smaller comes first in the execution order.
C12_LexicographicWithinTier ==
  LET order == computeExecutionOrder(nodes)
  IN \A i, j \in 1..Len(nodes) :
       ( /\ Tier(nodes[i].type) = Tier(nodes[j].type)
         /\ lexLess(nodes[i].label \o nodes[i].id, nodes[j].label \o nodes[j].id) )
       => \A k \in Places(order, nodes[i].id), l \in Places(order, nodes[j].id) :
            k < l

\* the guards of a run, as the store shows them
NoSimNode == \A i \in 1..Len(nodes) : nodes[i].type # mujoco_sim

SomeModelPathEmpty ==
  \E i \in 1..Len(nodes) :
    /\ nodes[i].type = mujoco_sim
    /\ \/ "model_path" \notin DOMAIN nodes[i].params
       \/ /\ nodes[i].params["model_path"].kind = "str"
          /\ \A k \in 1..Len(nodes[i].params["model_path"].str) :
               nodes[i].params["model_path"].str[k] = " "

ZeroEdges == Len(edges) = 0

\* a run started now makes no fetch and leaves the run status as it is
NoRunStarted ==
  \A headless \in BOOLEAN :
    /\ ENABLED runFromUI(headless)
    /\ ~ENABLED (runFromUI(headless) /\ ~(requests' = requests /\ runStatus' = runStatus))

InFlight(run) == run \in 1..Len(requests) /\ requests[run].set = <<"loading">>

\* the status is the result or the error of this run
Terminal(run) ==
  /\ runStatus # None
  /\ runStatus[1].run = run
  /\ ~runStatus[1].loading
  /\ runStatus[1].outcome \in {"succeeded", "failed"}

\* a run that passes the guard makes the status loading
StartsLoading ==
  (validateForRun.ok /\ Len(requests) < MaxRuns) =>
    \A headless \in BOOLEAN :
      /\ ENABLED runFromUI(headless)
      /\ ~ENABLED ( /\ runFromUI(headless)
                    /\ ~( /\ runStatus' = Some(Loading(Len(requests) + 1))
                          /\ Len(requests') = Len(requests) + 1 ) )

\* a run sets succeeded or failed at most once, and not both
OneOutcome ==
  \A run \in 1..Len(requests) :
    requests[run].set \in
      {<<"loading">>, <<"loading", "succeeded">>, <<"loading", "failed">>}

\* the status a response gives: succeeded on 2xx, failed otherwise, and no
\* new request
OutcomeOfResponse ==
  \A run \in 1..Len(requests), response \in Responses :
    InFlight(run) =>
      /\ ENABLED onResponse(run, response)
      /\ ~ENABLED ( /\ onResponse(run, response)
                    /\ ~( /\ runStatus' = Some(IF response = "2xx"
                                                 THEN Succeeded(run) ELSE Failed(run))
                          /\ Len(requests') = Len(requests) ) )

C15_LaterRunSupersedes ==
  runStatus # None => runStatus[1].run = Len(requests)

\* C16: addNode with a known block type appends exactly one node, whose z
\* is greater than the z of every node then in the store.
C16_AddNodeOnTop ==
  \A type \in DOMAIN BLOCK_CATALOG, u \in UidPool :
    (Len(nodes) < MaxNodes /\ maxZRef < MaxZ) =>
      /\ ENABLED addNode(type, u)
      /\ ~ENABLED ( /\ addNode(type, u)
                    /\ ~( /\ Len(nodes') = Len(nodes) + 1
                          /\ SubSeq(nodes', 1, Len(nodes)) = nodes
                          /\ \A i \in 1..Len(nodes) :
                               nodes'[Len(nodes')].z > nodes[i].z ) )

\* a Logger added on top of two nodes that were loaded from the snapshot with
\* a z that is not their index
C16_Witness ==
  /\ storage # None
  /\ Len(nodes) = 3
  /\ nodes[3].type = logger
  /\ nodes[3].z = maxZRef
  /\ \A i \in 1..2 : nodes[i].z < nodes[3].z
  /\ \E i \in 1..2 : nodes[i].z > 2 /\ storage[1].nodes[i].z = Some(nodes[i].z)

\* C17: when the store has no nodes, addNode gives the new node the z 1.
C17_FirstNodeGetsOne ==
  Len(nodes) = 0 =>
    \A type \in DOMAIN BLOCK_CATALOG, u \in UidPool :
      ~ENABLED (addNode(type, u) /\ nodes'[Len(nodes')].z # 1)

\* C18: no two nodes of the store have the same z.
C18_DistinctZ ==
  \A i, j \in 1..Len(nodes) : i # j => nodes[i].z # nodes[j].z

\* C19: no operation makes the z counter smaller.
C19_CounterNeverDecreases ==
  ~ENABLED (ZNext /\ maxZRef' < maxZRef)

\* C20: the ids of the nodes of the store are pairwise distinct.
C20_DistinctIds ==
  \A i, j \in 1..Len(nodes) : i # j => nodes[i].id # nodes[j].id

\* C21: when an output is pending and its node's id is no longer in the store
\* (the node was deleted, or the canvas cleared), a release on any input port
\* is answered "Node not found", adds no edge and leaves the engine idle.
C21_PendingOnDeletedNode ==
  (pendingFrom # None /\ pendingFrom[1].nodeId \notin NodeIds) =>
    \A to \in Endpoints :
      /\ canConnect(PendingEndpoint, to).reason = NodeNotFound
      /\ ENABLED onInputMouseUp(to.nodeId, to.port)
      /\ ~ENABLED ( /\ onInputMouseUp(to.nodeId, to.port)
                    /\ ~(edges' = edges /\ pendingFrom' = None) )

\* the node of the pending output has been deleted; another node, with an
\* input of the pending type, and an edge are still there
C21_Witness ==
  /\ pendingFrom # None
  /\ pendingFrom[1].nodeId \notin NodeIds
  /\ edges # <<>>
  /\ \E to \in Endpoints : pendingFrom[1].msgType \in PortTypes(to, "input")

\* C22: onOutputMouseDown(nodeId, port) makes (nodeId, port) the pending
\* output, with the catalog's data type of the port, exactly when nodeId is a
\* node of the store and port is a declared output of its block type;
\* otherwise the pending output, the nodes and the edges are as before.
C22_BeginFrom ==
  \A e \in Endpoints :
    /\ ENABLED onOutputMouseDown(e.nodeId, e.port)
    /\ IF e.nodeId \in NodeIds /\ PortTypes(e, "output") # {}
       THEN ~ENABLED ( /\ onOutputMouseDown(e.nodeId, e.port)
                       /\ ~( /\ pendingFrom' # None
                             /\ pendingFrom'[1].nodeId = e.nodeId
                             /\ pendingFrom'[1].port = e.port
                             /\ PortTypes(e, "output") = {pendingFrom'[1].msgType}
                             /\ nodes' = nodes /\ edges' = edges ) )
       ELSE ~ENABLED ( /\ onOutputMouseDown(e.nodeId, e.port)
                       /\ ~( /\ pendingFrom' = pendingFrom
                             /\ nodes' = nodes /\ edges' = edges ) )

\* an output is pending on a node that also has an input port, which is not
\* an output, and nothing is selected
C22_Witness ==
  /\ pendingFrom # None
  /\ pendingFrom[1].nodeId \in NodeIds
  /\ PortTypes(PendingEndpoint, "output") = {pendingFrom[1].msgType}
  /\ \E e \in Endpoints : /\ e.nodeId = pendingFrom[1].nodeId
                          /\ PortTypes(e, "input") # {}
                          /\ PortTypes(e, "output") = {}
  /\ selectedNodeId = None

\* C23: a press on the empty canvas leaves the engine idle, whether an output
\* was pending or not, and leaves the nodes and the edges as they were.
C23_Cancel ==
  /\ ENABLED onCanvasMouseDown
  /\ ~ENABLED ( /\ onCanvasMouseDown
                /\ ~(pendingFrom' = None /\ nodes' = nodes /\ edges' = edges) )

\* an output is pending while a node is selected and the store has an edge
C23_Witness ==
  /\ pendingFrom # None
  /\ selectedNodeId # None
  /\ Len(edges) = 1
  /\ Len(nodes) = 3

\* C24: importGraph gives the node at place i of the document's array the z i
\* (the array counted from 1), whatever z the document holds for it;
\* loadLastSaved gives each node the number z the snapshot holds for it, and
\* the z of its place when the snapshot holds none; after either, the z
\* counter is at least the z of every node.
C24_ZOnImportAndLoad ==
  /\ \A g \in ZFiles :
       /\ ENABLED importGraph(g)
       /\ ~ENABLED ( /\ importGraph(g)
                     /\ ~( /\ Len(nodes') = (IF g.nodes = None THEN 0
                                             ELSE Len(g.nodes[1]))
                           /\ \A i \in 1..Len(nodes') :
                                nodes'[i].z = i /\ maxZRef' >= nodes'[i].z ) )
  /\ storage # None =>
       /\ ENABLED loadLastSaved
       /\ ~ENABLED ( /\ loadLastSaved
                     /\ ~( /\ Len(nodes') = Len(storage[1].nodes)
                           /\ \A i \in 1..Len(nodes') :
                                /\ nodes'[i].z = (IF storage[1].nodes[i].z # None
                                                  THEN storage[1].nodes[i].z[1]
                                                  ELSE i)
                                /\ maxZRef' >= nodes'[i].z ) )

\* the store after the load of a snapshot with no z on its first node and
\* the z 3 on its second
C24_Witness ==
  /\ storage # None
  /\ Len(nodes) = 2 /\ Len(storage[1].nodes) = 2
  /\ nodes[1].type = logger /\ nodes[2].type = mujoco_sim
  /\ storage[1].nodes[1].z = None /\ nodes[1].z = 1
  /\ storage[1].nodes[2].z = Some(3) /\ nodes[2].z = 3
  /\ maxZRef = 3

\* every element of the collection is an object; a missing collection has none
WellFormed(collection) ==
  collection = None \/ \A i \in 1..Len(collection[1]) : ~collection[1][i].isNull

\* C25 as stated: the import of any "graph.v1" document without a nodes
\* array, or without an edges array, succeeds.
C25_AnyDocumentSucceeds ==
  \A g \in Files :
    (g.version = Some("graph.v1") /\ (g.nodes = None \/ g.edges = None)) =>
      ~importOutcome(g).threw

\* C25: the import of a "graph.v1" document without a nodes array, or without
\* an edges array, whose array that is there holds objects only, succeeds,
\* and the nodes, respectively the edges, of the store are empty after it.
C25_MissingArrayIsEmpty ==
  \A g \in Files :
    ( /\ g.version = Some("graph.v1")
      /\ g.nodes = None \/ g.edges = None
      /\ WellFormed(g.nodes) /\ WellFormed(g.edges) ) =>
        /\ ~importOutcome(g).threw
        /\ ENABLED importGraph(g)
        /\ ~ENABLED ( /\ importGraph(g)
                      /\ ~( /\ g.nodes = None => nodes' = <<>>
                            /\ g.nodes # None => Len(nodes') = Len(g.nodes[1])
                            /\ g.edges = None => edges' = <<>>
                            /\ g.edges # None => Len(edges') = Len(g.edges[1])
                            /\ selectedNodeId' = None ) )

\* the store after the import of a document with edges and no nodes array
C25_Witness ==
  /\ nodes = <<>>
  /\ edges # <<>>
  /\ selectedNodeId = None

\* C26: bringToFront(id), for the id of a node of the store, gives that node a
\* z greater than the z of every other node and changes no other field of a
\* node and no edge; for an id that is not in the store it leaves the nodes
\* and the edges as they were.
C26_BringToFront ==
  \A id \in NodeIds \cup {AbsentId} :
    ~ENABLED ( /\ onNodeDoubleClick(id)
               /\ ~( /\ Len(nodes') = Len(nodes)
                     /\ edges' = edges
                     /\ \A i \in 1..Len(nodes) :
                          IF nodes[i].id = id
                          THEN /\ [nodes'[i] EXCEPT !.z = nodes[i].z] = nodes[i]
                               /\ \A j \in 1..Len(nodes) :
                                    j # i => nodes'[i].z > nodes'[j].z
                          ELSE nodes'[i] = nodes[i] ) )

\* C27: while an output is pending, a press on the empty canvas, a press or a
\* double click on a node body, and every other event that is not on a port
\* (a palette button, Delete node, an edge's Remove, Clear) leave the engine
\* idle.
C27_OtherEventsCancel ==
  pendingFrom # None =>
    ~ENABLED ( /\ \/ CanvasMouseDown
                  \/ NodeMouseDown
                  \/ NodeDoubleClick
                  \/ AddNode
                  \/ RemoveSelectedNode
                  \/ RemoveEdge
                  \/ ClearCanvas
               /\ pendingFrom' # None )

\* the places of the nodes with the selected id
SelectedPlaces ==
  IF selectedNodeId = None THEN {}
  ELSE {i \in 1..Len(nodes) : nodes[i].id = selectedNodeId[1]}

\* C28: a change of parameter k in the Inspector changes the value of k in the
\* params of the selected node and nothing else: the params of every other
\* node, the id, type and every other field of every node, and the edges are
\* as before; with no node selected nothing changes.
C28_ParamsPerNode ==
  \A k \in ParamKeys, raw \in RawInputs :
    ~ENABLED ( /\ onParamChange(k, raw)
               /\ ~( /\ Len(nodes') = Len(nodes)
                     /\ edges' = edges
                     /\ \E only \in SelectedPlaces \cup {0} :
                          \A i \in 1..Len(nodes) :
                            IF i = only
                            THEN /\ [nodes'[i] EXCEPT !.params = nodes[i].params]
                                      = nodes[i]
                                 /\ \A q \in DOMAIN nodes[i].params \ {k} :
                                      /\ q \in DOMAIN nodes'[i].params
                                      /\ nodes'[i].params[q] = nodes[i].params[q]
                            ELSE nodes'[i] = nodes[i] ) )

\* C29: there is one pending output at most.  While an output is pending, a
\* press on an output port makes that output the pending one and commits no
\* edge; and a release that connects commits exactly one edge, which goes
\* from the output pending at that moment, the one selected last.
C29_OnePendingEndpoint ==
  pendingFrom # None =>
    /\ Len(pendingFrom) = 1
    /\ \A e \in Endpoints :
         PortTypes(e, "output") # {} =>
           /\ ENABLED onOutputMouseDown(e.nodeId, e.port)
           /\ ~ENABLED ( /\ onOutputMouseDown(e.nodeId, e.port)
                         /\ ~( /\ pendingFrom' # None
                               /\ pendingFrom'[1].nodeId = e.nodeId
                               /\ pendingFrom'[1].port = e.port
                               /\ edges' = edges ) )
    /\ \A to \in Endpoints :
         (FirstFailure(PendingEndpoint, to) = "ok" /\ Len(edges) < MaxEdges) =>
           /\ ENABLED onInputMouseUp(to.nodeId, to.port)
           /\ ~ENABLED ( /\ onInputMouseUp(to.nodeId, to.port)
                         /\ ~( /\ Len(edges') = Len(edges) + 1
                               /\ SubSeq(edges', 1, Len(edges)) = edges
                               /\ edges'[Len(edges')].from =
                                    edgeKey(pendingFrom[1].nodeId, pendingFrom[1].port)
                               /\ edges'[Len(edges')].to = edgeKey(to.nodeId, to.port)
                               /\ pendingFrom' = None ) )

\* an output is pending, another output can be pressed, and each of the two
\* can be connected to an input
C29_Witness ==
  /\ pendingFrom # None
  /\ Len(edges) < MaxEdges
  /\ \E to \in Endpoints : FirstFailure(PendingEndpoint, to) = "ok"
  /\ \E e \in Endpoints :
       /\ e # PendingEndpoint
       /\ PortTypes(e, "output") # {}
       /\ \E to \in Endpoints : FirstFailure(e, to) = "ok"

====
